---- MODULE Spec2Model ----
(***************************************************************************)
(* Model of unfriendly (src/unfriendly/model.py): the timer-driven fetch   *)
(* loop FriendsListQuery living on the worker thread, the FriendsList      *)
(* store and the UnfriendlyModel handlers living on the main thread.       *)
(***************************************************************************)
EXTENDS Integers, Sequences, FiniteSets, TLC

\* ------------------------------------------------------------------ bounds
MaxFriends == 2        \* longest friend-id listing the remote returns
MaxFailures == 2       \* remote failures of the fetch loop in one run
MaxErrors == 2         \* Error notifications of the model in one run
MaxRows == 3           \* rows of the store in the store-only specification

\* ------------------------------------------------------- values and inputs
None == 0 - 1          \* Python None for _query_arg
UserName == 0          \* auth_keys['user_name'], the argument of friends_ids
UtcOffset == 0 - 5     \* local time zone of time.mktime, in seconds here

Ids == 1 .. MaxFriends
Names == {"alice", "bob"}
Times == {10}
Users == [id : Ids, screen_name : Names, created_at : Times]

\* the profile the remote service holds for a user id: what api.get_user
\* returns for it
Profile(user_id) ==
    [id |-> user_id,
     screen_name |-> IF user_id % 2 = 1 THEN "alice" ELSE "bob",
     created_at |-> 10]

RateLimitError == "RateLimitError"
TweepError == "TweepError"
Kinds == {RateLimitError, TweepError}

\* e.message of a tweepy error: a list of dicts carrying 'message'
ErrorOf(kind) ==
    IF kind = RateLimitError
    THEN [kind |-> kind, message |-> <<[message |-> "Rate limit exceeded"]>>]
    ELSE [kind |-> kind, message |-> <<[message |-> "not found"]>>]

\* mutant: the text of the exception class instead of e.message[0]['message']
Message_kind(e) == e.kind

\* e.message[0]['message']
Message(e) == e.message[1].message

RECURSIVE Distinct(_)
Distinct(s) ==
    IF Len(s) <= 1 THEN TRUE
    ELSE /\ \A i \in 2 .. Len(s) : s[i] # s[1]
         /\ Distinct(Tail(s))

\* the listings friends_ids can return: ids are unique per listing
Listings ==
    UNION {{s \in [1 .. n -> Ids] : Distinct(s)} : n \in 0 .. MaxFriends}

VARIABLES
    _running,       \* FriendsListQuery._running
    _query_func,    \* FriendsListQuery._query_func
    _query_arg,     \* FriendsListQuery._query_arg
    _user_ids,      \* FriendsListQuery._user_ids: what the iterator has left
    _query_timer,   \* FriendsListQuery._query_timer (single shot)
    call,           \* the remote call the worker is blocked in
    started,        \* start() has run (thread.started was emitted)
    stop_first,     \* stop() was called before start()
    friends,        \* the listing friends_ids returned
    failures,       \* failures of the fetch loop's remote calls so far
    unhandled,      \* exceptions that left a slot of the fetch loop
    emitted,        \* every Response / Timeout the loop emitted so far
    queue,          \* emitted signals queued to the main thread
    rows,           \* FriendsList rows
    errors,         \* UnfriendlyModel.Error emissions (message texts)
    last,           \* the operation that made the last step
    hist,           \* the last two calls on the FriendsList, with the rows
                    \* each found (kept by the store-only specification)
    unfollowed,     \* the user ids unfollow_user unfollowed with success
    app_pc,         \* where the main thread is: UnfriendlyApp.__init__, the
                    \* event loop, the steps of shutdown, after app.quit
    _thread,        \* UnfriendlyModel._thread: new, running or finished
    started_signal, \* thread.started is emitted, its slot has yet to run
    quit_requested, \* thread.quit() was called on the running thread
    _startup_timer, \* UnfriendlyApp._startup_timer is active
    deleted,        \* the query object was deleted (deleteLater)
    starts,         \* how many times FriendsListQuery.start ran
    startups        \* how many times UnfriendlyModel.startup was called

vars == <<_running, _query_func, _query_arg, _user_ids, _query_timer, call,
          started, stop_first, friends, failures, unhandled, emitted, queue,
          rows, errors, last, hist, unfollowed, app_pc, _thread,
          started_signal,
          quit_requested, _startup_timer, deleted, starts, startups>>

app_vars == <<app_pc, _thread, started_signal, quit_requested,
              _startup_timer, deleted, starts, startups>>

loop_vars == <<_running, _query_func, _query_arg, _user_ids, _query_timer,
               call, started, stop_first, friends, failures, unhandled,
               emitted>>

NoCall == [api |-> "none", arg |-> None]
Op(name, id, res) == [op |-> name, id |-> id, res |-> res]

\* ------------------------------------------------------------ FriendsList
mktime(t) == t - UtcOffset
fromtimestamp(ts) == ts + UtcOffset

\* mutant: the row is inserted first instead of appended
add_front(rs, user) ==
    LET timestamp == mktime(user.created_at)
        last_tweet_at == fromtimestamp(timestamp)
    IN  <<[user_name |-> user.screen_name,
           user_id |-> user.id,
           last_tweet_at |-> last_tweet_at,
           timestamp |-> timestamp]>> \o rs

\* mutant: a record whose user_id a row already carries is not added
add_dedup(rs, user) ==
    LET timestamp == mktime(user.created_at)
        last_tweet_at == fromtimestamp(timestamp)
    IN  IF \E i \in 1 .. Len(rs) : rs[i].user_id = user.id
        THEN rs
        ELSE Append(rs, [user_name |-> user.screen_name,
                         user_id |-> user.id,
                         last_tweet_at |-> last_tweet_at,
                         timestamp |-> timestamp])

\* FriendsList.add: builds the two items of a row and appends the row
add(rs, user) ==
    LET timestamp == mktime(user.created_at)
        last_tweet_at == fromtimestamp(timestamp)
    IN  Append(rs, [user_name |-> user.screen_name,
                    user_id |-> user.id,
                    last_tweet_at |-> last_tweet_at,
                    timestamp |-> timestamp])

\* mutant: the last row is taken, whatever row is asked for
takeRow_last(rs, row) == SubSeq(rs, 1, Len(rs) - 1)

\* QStandardItemModel.takeRow
takeRow(rs, row) ==
    [i \in 1 .. Len(rs) - 1 |-> IF i < row THEN rs[i] ELSE rs[i + 1]]

\* mutant: a scan that finds no match takes the last row
RECURSIVE remove_from_last(_, _, _)
remove_from_last(rs, user_id, row) ==
    IF row > Len(rs) THEN SubSeq(rs, 1, Len(rs) - 1)
    ELSE IF rs[row].user_id = user_id THEN takeRow(rs, row)
    ELSE remove_from_last(rs, user_id, row + 1)

\* FriendsList.remove: scans the rows in order, takes the first match, breaks
RECURSIVE remove_from(_, _, _)
remove_from(rs, user_id, row) ==
    IF row > Len(rs) THEN rs
    ELSE IF rs[row].user_id = user_id THEN takeRow(rs, row)
    ELSE remove_from(rs, user_id, row + 1)

remove(rs, user_id) == remove_from(rs, user_id, 1)

\* ------------------------------------------------------- FriendsListQuery
Init ==
    /\ _running = TRUE
    /\ _query_func = "None"
    /\ _query_arg = None
    /\ _user_ids = <<>>
    /\ _query_timer = [created |-> FALSE, active |-> FALSE, msec |-> 0]
    /\ call = NoCall
    /\ started = FALSE
    /\ stop_first = FALSE
    /\ friends = <<>>
    /\ failures = <<>>
    /\ unhandled = 0
    /\ emitted = <<>>
    /\ queue = <<>>
    /\ rows = <<>>
    /\ errors = <<>>
    /\ last = Op("init", None, "")
    /\ hist = <<>>
    /\ unfollowed = {}
    /\ app_pc = "init"
    /\ _thread = "new"
    /\ started_signal = FALSE
    /\ quit_requested = FALSE
    /\ _startup_timer = TRUE
    /\ deleted = FALSE
    /\ starts = 0
    /\ startups = 0

\* QTimer.start(msec) on the single-shot timer
timer_start(msec) == [created |-> TRUE, active |-> TRUE, msec |-> msec]

\* FriendsListQuery.stop, called from the main thread
stop ==
    /\ _running' = FALSE
    /\ stop_first' = (stop_first \/ ~started)
    /\ last' = Op("stop", None, "")
    /\ UNCHANGED <<_query_func, _query_arg, _user_ids, _query_timer, call,
                   started, friends, failures, unhandled, emitted, queue,
                   rows, errors, hist, unfollowed, app_vars>>

\* mutant: start() sets the loop running again
start_sets_running ==
    /\ ~started
    /\ started' = TRUE
    /\ _running' = TRUE
    /\ _query_func' = "_get_friends"
    /\ _query_arg' = UserName
    /\ _query_timer' = timer_start(100)
    /\ last' = Op("start", None, "")
    /\ UNCHANGED <<_user_ids, call, stop_first, friends, failures,
                   unhandled, emitted, queue, rows, errors, hist, unfollowed, app_vars>>

\* FriendsListQuery.start, the slot of thread.started
start ==
    /\ ~started
    /\ started' = TRUE
    /\ _query_func' = "_get_friends"
    /\ _query_arg' = UserName
    /\ _query_timer' = timer_start(100)
    /\ last' = Op("start", None, "")
    /\ UNCHANGED <<_running, _user_ids, call, stop_first, friends, failures,
                   unhandled, emitted, queue, rows, errors, hist, unfollowed, app_vars>>

\* mutant: the delay is passed on in seconds, not milliseconds
_retry_seconds(in_seconds) == timer_start(in_seconds)

\* FriendsListQuery._retry
_retry(in_seconds) == timer_start(in_seconds * 1000)

Response(user) == [sig |-> "Response", arg |-> user]
Timeout(e) == [sig |-> "Timeout", arg |-> e]

\* mutant of _query: the step does not look at _running
_query_unchecked ==
    /\ _query_timer.active
    /\ call = NoCall
    /\ _query_timer' = [_query_timer EXCEPT !.active = FALSE]
    /\ call' = [api |-> IF _query_func = "_get_friends"
                        THEN "friends_ids" ELSE "get_user",
                arg |-> _query_arg]
    /\ last' = Op("_query", _query_arg, "call")
    /\ UNCHANGED <<_running, _query_func, _query_arg, _user_ids, started,
                   stop_first, friends, failures, unhandled, emitted, queue,
                   rows, errors, hist, unfollowed, app_vars>>

\* FriendsListQuery._query, the slot of the timer's timeout, up to the point
\* where the worker blocks in the remote call of _query_func
_query ==
    /\ _query_timer.active
    /\ call = NoCall
    /\ _query_timer' = [_query_timer EXCEPT !.active = FALSE]
    /\ IF ~_running
       THEN /\ call' = call
            /\ last' = Op("_query", _query_arg, "return")
       ELSE /\ call' = [api |-> IF _query_func = "_get_friends"
                                THEN "friends_ids" ELSE "get_user",
                        arg |-> _query_arg]
            /\ last' = Op("_query", _query_arg, "call")
    /\ UNCHANGED <<_running, _query_func, _query_arg, _user_ids, started,
                   stop_first, friends, failures, unhandled, emitted, queue,
                   rows, errors, hist, unfollowed, app_vars>>

\* FriendsListQuery._get_friends from the return of api.friends_ids on:
\* the call returned the listing ids
_get_friends_ok(ids) ==
    /\ call.api = "friends_ids"
    /\ call' = NoCall
    /\ friends' = ids
    /\ _query_func' = "_get_user"
    /\ IF ids # <<>>
       THEN /\ _query_arg' = Head(ids)
            /\ _user_ids' = Tail(ids)
            /\ _query_timer' = timer_start(0)
       ELSE /\ _user_ids' = ids
            /\ UNCHANGED <<_query_arg, _query_timer>>
    /\ last' = Op("_get_friends", call.arg, "ok")
    /\ UNCHANGED <<_running, started, stop_first, failures, unhandled,
                   emitted, queue, rows, errors, hist, unfollowed, app_vars>>

\* ... the call raised an error of the given kind
_get_friends_raise(kind) ==
    /\ call.api = "friends_ids"
    /\ Len(failures) < MaxFailures
    /\ call' = NoCall
    /\ failures' = Append(failures, [api |-> call.api, arg |-> call.arg,
                                     kind |-> kind])
    /\ IF kind = RateLimitError
       THEN /\ emitted' = Append(emitted, Timeout(ErrorOf(kind)))
            /\ queue' = Append(queue, Timeout(ErrorOf(kind)))
            /\ _query_timer' = _retry(60)
            /\ UNCHANGED unhandled
       ELSE /\ unhandled' = unhandled + 1
            /\ UNCHANGED <<emitted, queue, _query_timer>>
    /\ last' = Op("_get_friends", call.arg, kind)
    /\ UNCHANGED <<_running, _query_func, _query_arg, _user_ids, started,
                   stop_first, friends, rows, errors, hist, unfollowed, app_vars>>

\* mutant of _get_user_ok: the next id is taken off the iterator but not
\* stored in _query_arg
_get_user_ok_same_arg(user) ==
    /\ call.api = "get_user"
    /\ user = Profile(call.arg)
    /\ call' = NoCall
    /\ emitted' = Append(emitted, Response(user))
    /\ queue' = Append(queue, Response(user))
    /\ IF _user_ids # <<>>
       THEN /\ _user_ids' = Tail(_user_ids)
            /\ _query_timer' = timer_start(0)
            /\ UNCHANGED _query_arg
       ELSE UNCHANGED <<_query_arg, _user_ids, _query_timer>>
    /\ last' = Op("_get_user", call.arg, "ok")
    /\ UNCHANGED <<_running, _query_func, started, stop_first, friends,
                   failures, unhandled, rows, errors, hist, unfollowed,
                   app_vars>>

\* FriendsListQuery._get_user from the return of api.get_user on:
\* the call returned user
_get_user_ok(user) ==
    /\ call.api = "get_user"
    /\ user = Profile(call.arg)
    /\ call' = NoCall
    /\ emitted' = Append(emitted, Response(user))
    /\ queue' = Append(queue, Response(user))
    /\ IF _user_ids # <<>>
       THEN /\ _query_arg' = Head(_user_ids)
            /\ _user_ids' = Tail(_user_ids)
            /\ _query_timer' = timer_start(0)
       ELSE UNCHANGED <<_query_arg, _user_ids, _query_timer>>
    /\ last' = Op("_get_user", call.arg, "ok")
    /\ UNCHANGED <<_running, _query_func, started, stop_first, friends,
                   failures, unhandled, rows, errors, hist, unfollowed, app_vars>>

\* mutant of _get_user_raise: a rate-limited get_user moves on to the next id
_get_user_raise_skips(kind) ==
    /\ call.api = "get_user"
    /\ Len(failures) < MaxFailures
    /\ call' = NoCall
    /\ failures' = Append(failures, [api |-> call.api, arg |-> call.arg,
                                     kind |-> kind])
    /\ IF kind = RateLimitError
       THEN /\ emitted' = Append(emitted, Timeout(ErrorOf(kind)))
            /\ queue' = Append(queue, Timeout(ErrorOf(kind)))
            /\ IF _user_ids # <<>>
               THEN /\ _query_arg' = Head(_user_ids)
                    /\ _user_ids' = Tail(_user_ids)
                    /\ _query_timer' = _retry(60)
               ELSE UNCHANGED <<_query_arg, _user_ids, _query_timer>>
            /\ UNCHANGED unhandled
       ELSE /\ unhandled' = unhandled + 1
            /\ UNCHANGED <<emitted, queue, _query_timer, _query_arg,
                           _user_ids>>
    /\ last' = Op("_get_user", call.arg, kind)
    /\ UNCHANGED <<_running, _query_func, started, stop_first, friends,
                   rows, errors, hist, unfollowed, app_vars>>

\* ... the call raised an error of the given kind
_get_user_raise(kind) ==
    /\ call.api = "get_user"
    /\ Len(failures) < MaxFailures
    /\ call' = NoCall
    /\ failures' = Append(failures, [api |-> call.api, arg |-> call.arg,
                                     kind |-> kind])
    /\ IF kind = RateLimitError
       THEN /\ emitted' = Append(emitted, Timeout(ErrorOf(kind)))
            /\ queue' = Append(queue, Timeout(ErrorOf(kind)))
            /\ _query_timer' = _retry(60)
            /\ UNCHANGED unhandled
       ELSE /\ unhandled' = unhandled + 1
            /\ UNCHANGED <<emitted, queue, _query_timer>>
    /\ last' = Op("_get_user", call.arg, kind)
    /\ UNCHANGED <<_running, _query_func, _query_arg, _user_ids, started,
                   stop_first, friends, rows, errors, hist, unfollowed, app_vars>>

\* -------------------------------------------------------- UnfriendlyModel
\* UnfriendlyModel._handle_query_response, the queued slot of Response
_handle_query_response ==
    /\ queue # <<>>
    /\ Head(queue).sig = "Response"
    /\ queue' = Tail(queue)
    /\ rows' = add(rows, Head(queue).arg)
    /\ last' = Op("_handle_query_response", Head(queue).arg.id, "")
    /\ UNCHANGED <<loop_vars, errors, hist, unfollowed, app_vars>>

\* UnfriendlyModel._handle_query_timeout, the queued slot of Timeout
_handle_query_timeout ==
    /\ queue # <<>>
    /\ Head(queue).sig = "Timeout"
    /\ queue' = Tail(queue)
    /\ errors' = Append(errors, Message(Head(queue).arg))
    /\ last' = Op("_handle_query_timeout", None, "")
    /\ UNCHANGED <<loop_vars, rows, hist, unfollowed, app_vars>>

\* UnfriendlyModel.unfollow_user where api.destroy_friendship succeeds
unfollow_user_ok(user_id) ==
    /\ rows' = remove(rows, user_id)
    /\ unfollowed' = unfollowed \cup {user_id}
    /\ last' = Op("unfollow_user", user_id, "ok")
    /\ UNCHANGED <<loop_vars, queue, errors, hist, app_vars>>

\* UnfriendlyModel.unfollow_user where api.destroy_friendship raises
unfollow_user_raise(user_id, kind) ==
    /\ Len(errors) < MaxErrors
    /\ errors' = Append(errors, Message(ErrorOf(kind)))
    /\ last' = Op("unfollow_user", user_id, kind)
    /\ UNCHANGED <<loop_vars, queue, rows, hist, unfollowed, app_vars>>

\* the ids the window can ask to unfollow: UnfollowUser carries the user id
\* of a selected row (ui.py, _handle_unfollow_clicked)
Selectable == {rows[i].user_id : i \in 1 .. Len(rows)}

Next ==
    \/ start
    \/ stop
    \/ _query
    \/ \E ids \in Listings : _get_friends_ok(ids)
    \/ \E kind \in Kinds : _get_friends_raise(kind)
    \/ \E user \in Users : _get_user_ok(user)
    \/ \E kind \in Kinds : _get_user_raise(kind)
    \/ _handle_query_response
    \/ _handle_query_timeout
    \/ \E user_id \in Selectable : unfollow_user_ok(user_id)
    \/ \E user_id \in Selectable, kind \in Kinds :
           unfollow_user_raise(user_id, kind)

Spec == Init /\ [][Next]_vars

\* ------------------------------------------- the FriendsList on its own
\* Any sequence of add and remove calls on a FriendsList, as a caller of
\* the class can make them; hist keeps the last two calls.
NoUser == [id |-> None, screen_name |-> "", created_at |-> 0]

Push(h, c) == IF Len(h) < 2 THEN Append(h, c) ELSE <<h[2], c>>

FriendsList_add(user) ==
    /\ Len(rows) < MaxRows
    /\ rows' = add(rows, user)
    /\ hist' = Push(hist, [op |-> "add", user_id |-> user.id, user |-> user,
                           before |-> rows])
    /\ UNCHANGED <<loop_vars, queue, errors, last, unfollowed, app_vars>>

FriendsList_remove(user_id) ==
    /\ rows' = remove(rows, user_id)
    /\ hist' = Push(hist, [op |-> "remove", user_id |-> user_id,
                           user |-> NoUser, before |-> rows])
    /\ UNCHANGED <<loop_vars, queue, errors, last, unfollowed, app_vars>>

NextStore ==
    \/ \E user \in Users : FriendsList_add(user)
    \/ \E user_id \in Ids : FriendsList_remove(user_id)

SpecStore == Init /\ [][NextStore]_vars

\* --------------------------------------------- the running application
\* UnfriendlyApp (app.py) drives the model: startup() is called from
\* __init__ and again from the zero-delay startup timer, the window's
\* closeEvent emits Shutdown, whose slots run in connection order:
\* model.shutdown (stop, quit, wait), then app.quit.
main_vars == <<queue, rows, errors, hist, unfollowed>>

\* mutant: the thread is started, and thread.started emitted, on every call
startup_restarts ==
    /\ startups' = startups + 1
    /\ _thread' = "running"
    /\ started_signal' = ~deleted
    /\ quit_requested' = FALSE

\* UnfriendlyModel.startup: QThread.start does nothing on a running thread;
\* a thread that starts emits started, connected to query.start
startup ==
    /\ startups' = startups + 1
    /\ IF _thread = "running"
       THEN UNCHANGED <<_thread, started_signal, quit_requested>>
       ELSE /\ _thread' = "running"
            /\ started_signal' = ~deleted
            /\ quit_requested' = FALSE

\* UnfriendlyApp.__init__ from self.model.startup() on, into app.exec_()
UnfriendlyApp_init ==
    /\ app_pc = "init"
    /\ app_pc' = "exec"
    /\ startup
    /\ last' = Op("startup", None, "__init__")
    /\ UNCHANGED <<loop_vars, main_vars, _startup_timer, deleted, starts>>

\* the timeout of UnfriendlyApp._startup_timer, connected to model.startup
startup_timeout ==
    /\ app_pc \in {"exec", "quit"}
    /\ _startup_timer
    /\ _startup_timer' = FALSE
    /\ startup
    /\ last' = Op("startup", None, "timer")
    /\ UNCHANGED <<loop_vars, main_vars, app_pc, deleted, starts>>

\* FriendsListQuery.start as the slot of thread.started, on the worker
query_start ==
    /\ _thread = "running"
    /\ started_signal
    /\ started_signal' = FALSE
    /\ starts' = starts + 1
    /\ started' = TRUE
    /\ _query_func' = "_get_friends"
    /\ _query_arg' = UserName
    /\ _query_timer' = timer_start(100)
    /\ last' = Op("start", None, "")
    /\ UNCHANGED <<_running, _user_ids, call, stop_first, friends, failures,
                   unhandled, emitted, main_vars, app_pc, _thread,
                   quit_requested, _startup_timer, deleted, startups>>

\* the worker's event loop runs the slots of the query
InLoop == _thread = "running" /\ ~started_signal /\ ~deleted

worker_query == InLoop /\ _query
worker_get_friends_ok(ids) == InLoop /\ _get_friends_ok(ids)
worker_get_friends_raise(kind) == InLoop /\ _get_friends_raise(kind)
worker_get_user_ok(user) == InLoop /\ _get_user_ok(user)
worker_get_user_raise(kind) == InLoop /\ _get_user_raise(kind)

\* the main event loop runs the queued slots and the window's requests
InExec == app_pc = "exec"

main_handle_query_response == InExec /\ _handle_query_response
main_handle_query_timeout == InExec /\ _handle_query_timeout
main_unfollow_user_ok(user_id) == InExec /\ unfollow_user_ok(user_id)
main_unfollow_user_raise(user_id, kind) ==
    InExec /\ unfollow_user_raise(user_id, kind)

\* UnfriendlyWindow.closeEvent emits Shutdown; UnfriendlyModel.shutdown
\* starts with self._query.stop()
closeEvent ==
    /\ app_pc = "exec"
    /\ app_pc' = "stopped"
    /\ _running' = FALSE
    /\ stop_first' = (stop_first \/ ~started)
    /\ last' = Op("stop", None, "shutdown")
    /\ UNCHANGED <<_query_func, _query_arg, _user_ids, _query_timer, call,
                   started, friends, failures, unhandled, emitted, main_vars,
                   _thread, started_signal, quit_requested, _startup_timer,
                   deleted, starts, startups>>

\* UnfriendlyModel.shutdown: self._thread.quit()
shutdown_quit ==
    /\ app_pc = "stopped"
    /\ app_pc' = "waiting"
    /\ quit_requested' = (_thread = "running")
    /\ last' = Op("shutdown", None, "quit")
    /\ UNCHANGED <<loop_vars, main_vars, _thread, started_signal,
                   _startup_timer, deleted, starts, startups>>

\* the worker's event loop returns once quit was asked and no slot runs;
\* thread.finished runs query.stop and the deleteLater slots
thread_finished ==
    /\ _thread = "running"
    /\ ~started_signal
    /\ quit_requested
    /\ call = NoCall
    /\ _thread' = "finished"
    /\ quit_requested' = FALSE
    /\ _running' = FALSE
    /\ deleted' = TRUE
    /\ last' = Op("finished", None, "")
    /\ UNCHANGED <<_query_func, _query_arg, _user_ids, _query_timer, call,
                   started, stop_first, friends, failures, unhandled,
                   emitted, main_vars, app_pc, started_signal,
                   _startup_timer, starts, startups>>

\* mutant: the wait returns while the thread still runs
shutdown_wait_early ==
    /\ app_pc = "waiting"
    /\ app_pc' = "joined"
    /\ last' = Op("shutdown", None, "wait")
    /\ UNCHANGED <<loop_vars, main_vars, _thread, started_signal,
                   quit_requested, _startup_timer, deleted, starts,
                   startups>>

\* UnfriendlyModel.shutdown: self._thread.wait() returns
shutdown_wait ==
    /\ app_pc = "waiting"
    /\ _thread # "running"
    /\ app_pc' = "joined"
    /\ last' = Op("shutdown", None, "wait")
    /\ UNCHANGED <<loop_vars, main_vars, _thread, started_signal,
                   quit_requested, _startup_timer, deleted, starts,
                   startups>>

\* the second slot of Shutdown: functools.partial(app.quit)
app_quit ==
    /\ app_pc = "joined"
    /\ app_pc' = "quit"
    /\ last' = Op("app.quit", None, "")
    /\ UNCHANGED <<loop_vars, main_vars, _thread, started_signal,
                   quit_requested, _startup_timer, deleted, starts,
                   startups>>

NextApp ==
    \/ UnfriendlyApp_init
    \/ startup_timeout
    \/ query_start
    \/ worker_query
    \/ \E ids \in Listings : worker_get_friends_ok(ids)
    \/ \E kind \in Kinds : worker_get_friends_raise(kind)
    \/ \E user \in Users : worker_get_user_ok(user)
    \/ \E kind \in Kinds : worker_get_user_raise(kind)
    \/ main_handle_query_response
    \/ main_handle_query_timeout
    \/ \E user_id \in Selectable : main_unfollow_user_ok(user_id)
    \/ \E user_id \in Selectable, kind \in Kinds :
           main_unfollow_user_raise(user_id, kind)
    \/ closeEvent
    \/ shutdown_quit
    \/ thread_finished
    \/ shutdown_wait
    \/ app_quit

SpecApp == Init /\ [][NextApp]_vars

\* ------------------------------------------- the loop left to run
\* The loop is started and never stopped; a timer that is armed fires, a
\* remote call returns, and a call fails at most MaxFailures times.
friends_ids_returns ==
    \/ \E ids \in Listings : _get_friends_ok(ids)
    \/ \E kind \in Kinds : _get_friends_raise(kind)

get_user_returns ==
    \/ \E user \in Users : _get_user_ok(user)
    \/ \E kind \in Kinds : _get_user_raise(kind)

NextLive ==
    \/ start
    \/ _query
    \/ friends_ids_returns
    \/ get_user_returns
    \/ _handle_query_response
    \/ _handle_query_timeout

SpecLive ==
    /\ Init
    /\ [][NextLive]_vars
    /\ WF_vars(start)
    /\ WF_vars(_query)
    /\ WF_vars(friends_ids_returns)
    /\ WF_vars(get_user_returns)

\* ================================================================ claims
\* The loop is Idle: no step is scheduled and no remote call is in flight.
Idle == started /\ call = NoCall /\ ~_query_timer.active

IsResponse(n) == n.sig = "Response"
IsTimeout(n) == n.sig = "Timeout"
Responses == SelectSeq(emitted, IsResponse)
Timeouts == SelectSeq(emitted, IsTimeout)

\* the user ids of the records emitted so far, in emission order
ResponseIds == [i \in 1 .. Len(Responses) |-> Responses[i].arg.id]

ListingReturned == _query_func = "_get_user"

NoRateLimit == \A i \in 1 .. Len(failures) : failures[i].kind # RateLimitError

\* C1: for a listing of N ids returned by list-friend-ids, when no remote
\* call raised a rate-limit error and the loop was not stopped, the Idle loop
\* has emitted exactly N Response records, one per id, in listing order, and
\* nothing else.
C1_AllRecordsInOrder ==
    (Idle /\ _running /\ ListingReturned /\ NoRateLimit)
        => /\ ResponseIds = friends
           /\ Len(emitted) = Len(friends)

\* C2: when get-user of one index raised RateLimitError exactly once and
\* every other call succeeded, the Idle loop has emitted a record for every
\* index of the listing, that index included: N records in listing order.
OneGetUserRateLimit ==
    /\ Len(failures) = 1
    /\ failures[1].api = "get_user"
    /\ failures[1].kind = RateLimitError
    /\ \E i \in 1 .. Len(friends) : failures[1].arg = friends[i]

C2_RetryKeepsIndex ==
    (Idle /\ _running /\ OneGetUserRateLimit)
        => /\ ResponseIds = friends
           /\ Len(Responses) = Len(friends)
           /\ Len(Timeouts) = 1

C2_Witness ==
    /\ Idle /\ _running /\ OneGetUserRateLimit
    /\ Len(friends) >= 2
    /\ failures[1].arg = friends[1]
    /\ Len(Responses) = Len(friends)

\* C3: when list-friend-ids raised RateLimitError once and then returned the
\* listing L, the step that saw the error armed the timer for 60 seconds and
\* left _query_func, _query_arg and the id iterator as they were, and the
\* Idle loop has emitted one Timeout followed by one record per id of L in
\* order.
OneFriendsIdsRateLimit ==
    /\ Len(failures) = 1
    /\ failures[1].api = "friends_ids"
    /\ failures[1].kind = RateLimitError

C3_Final ==
    (Idle /\ _running /\ ListingReturned /\ OneFriendsIdsRateLimit)
        => /\ Len(emitted) = 1 + Len(friends)
           /\ IsTimeout(emitted[1])
           /\ \A i \in 1 .. Len(friends) :
                  /\ IsResponse(emitted[i + 1])
                  /\ emitted[i + 1].arg.id = friends[i]

C3_SamePhase ==
    (last'.op = "_get_friends" /\ last'.res = RateLimitError)
        => /\ _query_timer'.active
           /\ _query_timer'.msec = 60000
           /\ _query_func' = "_get_friends"
           /\ _query_arg' = UserName
           /\ _user_ids' = _user_ids
           /\ Len(emitted') = Len(emitted) + 1

C3_ListRateLimitRetried == [](C3_Final) /\ [][C3_SamePhase]_vars

C3_Witness ==
    /\ Idle /\ _running /\ ListingReturned /\ OneFriendsIdsRateLimit
    /\ Len(friends) >= 1
    /\ Len(emitted) = 1 + Len(friends)

\* C4: when stop() was called before start(), the loop emits nothing and
\* makes no remote call, whatever timer fires after start(): the fired step
\* returns at once and arms no further step.
C4_StopBeforeStart ==
    stop_first
        => /\ emitted = <<>>
           /\ queue = <<>>
           /\ call = NoCall
           /\ friends = <<>>
           /\ failures = <<>>
           /\ (last.op = "_query" => ~_query_timer.active)

C4_Witness ==
    /\ stop_first /\ started
    /\ last.op = "_query"
    /\ ~_query_timer.active

\* C5: once stop() has been called, no step of the loop emits a Response or
\* a Timeout any more.
C5_NoEmissionAfterStop == [][~_running => emitted' = emitted]_vars

\* C6: every remote failure of list-friend-ids or get-user ends its step
\* with a retry scheduled or a notification emitted, and no exception leaves
\* the step.
C6_Step ==
    (last'.op \in {"_get_friends", "_get_user"} /\ last'.res \in Kinds)
        => /\ unhandled' = unhandled
           /\ \/ _query_timer'.active
              \/ Len(emitted') = Len(emitted) + 1

C6_NoFailureEscapes == [][C6_Step]_vars

\* the rows of rs that do not carry user_id, in their order
Others(rs, user_id) ==
    LET Keep(r) == r.user_id # user_id IN SelectSeq(rs, Keep)

\* C7: a step of unfollow_user(u) in which destroy-friendship succeeded
\* takes the row of u out of the store, leaves every other row with its
\* content and in its order, and emits no Error.
C7_Step ==
    (last'.op = "unfollow_user" /\ last'.res = "ok")
        => /\ rows' = Others(rows, last'.id)
           /\ Len(rows') = Len(rows) - 1
           /\ errors' = errors

C7_UnfollowRemovesRow == [][C7_Step]_vars

C7_Witness ==
    /\ last.op = "unfollow_user" /\ last.res = "ok"
    /\ Len(rows) >= 1
    /\ \A i \in 1 .. Len(rows) : rows[i].user_id # last.id

\* C8: a step of unfollow_user(u) in which destroy-friendship raised, a
\* rate-limit error or any other, leaves the store as it was, emits exactly
\* one Error with the message of the error, and schedules nothing.
TextOf(kind) ==
    IF kind = RateLimitError THEN "Rate limit exceeded" ELSE "not found"

C8_Step ==
    (last'.op = "unfollow_user" /\ last'.res \in Kinds)
        => /\ rows' = rows
           /\ errors' = Append(errors, TextOf(last'.res))
           /\ UNCHANGED <<_query_timer, call, queue, emitted>>

RowOf(user) ==
    [user_name |-> user.screen_name, user_id |-> user.id,
     last_tweet_at |-> user.created_at,
     timestamp |-> user.created_at - UtcOffset]

\* hist ends with remove(r.user_id), add(r) where r was a row of the store
RemovedThenAdded ==
    /\ Len(hist) = 2
    /\ hist[1].op = "remove"
    /\ hist[2].op = "add"
    /\ hist[2].user_id = hist[1].user_id
    /\ \E i \in 1 .. Len(hist[1].before) :
           hist[1].before[i] = RowOf(hist[2].user)

\* the first row of rs that carries user_id (there is one)
FirstMatch(rs, user_id) ==
    CHOOSE k \in 1 .. Len(rs) :
        /\ rs[k].user_id = user_id
        /\ \A j \in 1 .. k - 1 : rs[j].user_id # user_id

\* C9 as stated: remove(r.user_id) followed by add(r), r a record of the
\* store, gives back the rows the store had, in the same order.
C9_RemoveAddRestores ==
    RemovedThenAdded => rows = hist[1].before

\* C9 amended: remove(r.user_id) followed by add(r) keeps the row count;
\* the first row carrying r.user_id is gone, the rows before it keep their
\* place, the rows after it move up by one, and r's row is the last row; the
\* store is as it was when that first row was the last row.
C9_RemoveAddMovesLast ==
    RemovedThenAdded =>
        LET b == hist[1].before
            k == FirstMatch(b, hist[1].user_id)
        IN  /\ Len(rows) = Len(b)
            /\ \A i \in 1 .. k - 1 : rows[i] = b[i]
            /\ \A i \in k .. Len(b) - 1 : rows[i] = b[i + 1]
            /\ rows[Len(b)] = RowOf(hist[2].user)
            /\ (k = Len(b) => rows = b)

C9_Witness ==
    /\ RemovedThenAdded
    /\ Len(rows) >= 2
    /\ rows # hist[1].before
    /\ rows[Len(rows)] = hist[1].before[1]

\* C10: remove(user_id) for a user_id that no row carries leaves the store
\* as it was: same row count, same rows, same order.
AbsentRemoved ==
    /\ hist # <<>>
    /\ hist[Len(hist)].op = "remove"
    /\ \A i \in 1 .. Len(hist[Len(hist)].before) :
           hist[Len(hist)].before[i].user_id # hist[Len(hist)].user_id

C10_RemoveAbsentNoOp ==
    AbsentRemoved => rows = hist[Len(hist)].before

C10_Witness ==
    /\ AbsentRemoved
    /\ Len(rows) >= 2
    /\ rows = hist[Len(hist)].before

\* C11: in every reachable state of the running application no two rows of
\* the FriendsList carry the same user_id.
C11_UniqueUserIds ==
    \A i, j \in 1 .. Len(rows) :
        i # j => rows[i].user_id # rows[j].user_id

C11_Witness ==
    /\ startups = 2
    /\ Len(rows) >= 2
    /\ \E k \in 1 .. Len(failures) : failures[k].kind = RateLimitError

\* the user ids of the rows, in row order
RowIds == [i \in 1 .. Len(rows) |-> rows[i].user_id]

\* the ids of s that were not unfollowed, in the order of s
Kept(s) ==
    LET Stays(id) == id \notin unfollowed IN SelectSeq(s, Stays)

\* the store holds the rows of the records delivered so far, in emission
\* order, less the rows of the users unfollowed
StoreMirrorsDelivered ==
    queue = <<>> =>
        /\ RowIds = Kept(ResponseIds)
        /\ \A i \in 1 .. Len(rows) : rows[i] = RowOf(Profile(rows[i].user_id))

\* C12: once the loop has run to Idle for a listing of N ids and every
\* notification is delivered, the store holds, with no unfollow, exactly N
\* rows, one per user of the listing in emission order, and with unfollows
\* exactly the rows of the listing's users less those unfollowed.
C12_StoreHoldsListing ==
    (Idle /\ _running /\ ListingReturned /\ queue = <<>>)
        => /\ unfollowed = {} => /\ Len(rows) = Len(friends)
                                 /\ RowIds = friends
           /\ RowIds = Kept(friends)

\* C13: a loop that is started and never stopped, whose calls are
\* rate-limited finitely often and whose timers fire, eventually is Idle
\* with a record emitted for every id of the listing, in listing order.
C13_EventuallyAllRecords ==
    <>(Idle /\ ListingReturned /\ ResponseIds = friends)

\* C14: at every reachable state the ids of the records emitted so far are
\* a prefix of the listing, and the id the loop fetches or will fetch next
\* is the first id of the listing without a record: a rate-limited get-user
\* is retried with the same id, no id is skipped, none is emitted twice.
C14_EmittedIsPrefix ==
    LET n == Len(ResponseIds) IN
    /\ n <= Len(friends)
    /\ \A i \in 1 .. n : ResponseIds[i] = friends[i]
    /\ (ListingReturned /\ n < Len(friends)) => _query_arg = friends[n + 1]
    /\ call.api = "get_user" => /\ n < Len(friends)
                                /\ call.arg = friends[n + 1]

C14_Witness ==
    /\ last.op = "_get_user" /\ last.res = "ok"
    /\ Len(ResponseIds) = 2
    /\ \E k \in 1 .. Len(failures) :
           /\ failures[k].kind = RateLimitError
           /\ failures[k].arg = last.id

\* C15: the fetch loop is strictly sequential although startup() is asked
\* for twice: start() runs at most once, a step that is running (its remote
\* call in flight) leaves no other step pending, and no step is pending or
\* running before start() or on a thread that is not running.
C15_OneStepAtATime ==
    /\ starts <= 1
    /\ started_signal => starts = 0
    /\ call # NoCall => ~_query_timer.active
    /\ (call # NoCall \/ _query_timer.active) => starts = 1
    /\ call # NoCall => _thread = "running"

C15_Witness ==
    /\ startups = 2
    /\ starts = 1
    /\ call.api = "get_user"

\* C16: the stop flag is absorbing and is looked at before each step: no
\* step sets a stopped loop running again, and a scheduled step that begins
\* when the loop is stopped makes no remote call, emits nothing and arms no
\* further step.
C16_Step ==
    /\ ~_running => ~_running'
    /\ (~_running /\ last'.op = "_query")
           => /\ call' = NoCall
              /\ emitted' = emitted
              /\ queue' = queue
              /\ ~_query_timer'.active
              /\ UNCHANGED <<_query_func, _query_arg, _user_ids>>

C16_StopIsAbsorbing == [][C16_Step]_vars

C16_Witness ==
    /\ ~_running
    /\ last.op = "_query" /\ last.res = "return"
    /\ Len(Responses) >= 1
    /\ Len(Responses) < Len(friends)

\* C17: on window close the stop flag of the loop is set first, then the
\* worker thread is asked to quit and is waited for, and app.quit runs only
\* after the wait has returned with the thread finished.
C17_Step ==
    /\ (app_pc # "stopped" /\ app_pc' = "stopped")
           => /\ app_pc = "exec"
              /\ ~_running'
              /\ ~quit_requested'
    /\ (app_pc # "waiting" /\ app_pc' = "waiting")
           => /\ app_pc = "stopped"
              /\ ~_running
              /\ quit_requested'
    /\ (app_pc # "joined" /\ app_pc' = "joined")
           => /\ app_pc = "waiting"
              /\ _thread = "finished"
    /\ (app_pc # "quit" /\ app_pc' = "quit")
           => /\ app_pc = "joined"
              /\ _thread = "finished"
              /\ ~_running

C17_ShutdownOrder == [][C17_Step]_vars

C17_Witness ==
    /\ app_pc = "quit"
    /\ last.op = "app.quit"
    /\ _thread = "finished"
    /\ Len(emitted) >= 1

\* the number of rows of rs that carry user_id
Count(rs, user_id) ==
    Cardinality({i \in 1 .. Len(rs) : rs[i].user_id = user_id})

\* hist ends with two adds of records of one user_id
AddedTwice ==
    /\ Len(hist) = 2
    /\ hist[1].op = "add"
    /\ hist[2].op = "add"
    /\ hist[1].user_id = hist[2].user_id

\* hist ends with remove(user_id) on a store where two or more rows carried
\* user_id
RemovedDuplicate ==
    /\ hist # <<>>
    /\ hist[Len(hist)].op = "remove"
    /\ Count(hist[Len(hist)].before, hist[Len(hist)].user_id) >= 2

\* C18: add has no de-duplication guard: two adds of records of one user_id
\* append two rows with that user_id, whatever the store held; a following
\* remove(user_id) takes the first matching row only, so the rows before it
\* stay, the rows after it move up by one, and the other rows carrying
\* user_id are still in the store.
C18_NoDedupFirstMatch ==
    /\ AddedTwice =>
           LET b == hist[1].before
           IN  /\ rows = b \o <<RowOf(hist[1].user), RowOf(hist[2].user)>>
               /\ Count(rows, hist[1].user_id) = Count(b, hist[1].user_id) + 2
    /\ RemovedDuplicate =>
           LET b == hist[Len(hist)].before
               id == hist[Len(hist)].user_id
               k == FirstMatch(b, id)
           IN  /\ Len(rows) = Len(b) - 1
               /\ \A i \in 1 .. k - 1 : rows[i] = b[i]
               /\ \A i \in k .. Len(b) - 1 : rows[i] = b[i + 1]
               /\ Count(rows, id) = Count(b, id) - 1
               /\ \E i \in k .. Len(rows) : rows[i].user_id = id

\* two adds of one user_id on a store without it, then remove(user_id): the
\* second row is the one left
C18_Witness ==
    /\ Len(hist) = 2
    /\ hist[1].op = "add"
    /\ hist[2].op = "remove"
    /\ hist[1].user_id = hist[2].user_id
    /\ Count(hist[1].before, hist[1].user_id) = 1
    /\ Count(hist[2].before, hist[2].user_id) = 2
    /\ Count(rows, hist[2].user_id) = 1
    /\ hist[1].before[1].user_id = hist[1].user_id
    /\ rows[Len(rows)] = RowOf(hist[1].user)
    /\ rows[Len(rows)] # hist[1].before[1]

====
